---- MODULE Spec2Model ----
(***************************************************************************)
(* Model of src/Impl/ed25519.ts: the class NodeEd25519 (BIP32 extended     *)
(* keys over ed25519) with its child key derivation functions CKDPriv and  *)
(* CKDPub, the 78-byte extended key codec (toBase58 / fromBase58) and the  *)
(* derivation path resolver (derivePath).                                  *)
(*                                                                         *)
(* Buffers are sequences of bytes.  JavaScript numbers that hold unsigned  *)
(* 32-bit quantities (indexes, fingerprints, version prefixes) can pass    *)
(* 2^31 and even 2^32 in this code, so a number is kept as two limbs,      *)
(* value = hi * 65536 + lo with lo in 0..65535 (see U).                    *)
(***************************************************************************)
EXTENDS Integers, Sequences, FiniteSets, TLC

(***************************************************************************)
(* Numbers                                                                 *)
(***************************************************************************)
U(h, l) == [hi |-> h, lo |-> l]

Zero == U(0, 0)

One == U(0, 1)

NumAdd(a, b) ==
  U(a.hi + b.hi + ((a.lo + b.lo) \div 65536), (a.lo + b.lo) % 65536)

NumGE(a, b) == (a.hi > b.hi) \/ (a.hi = b.hi /\ a.lo >= b.lo)

NumGT(a, b) == (a.hi > b.hi) \/ (a.hi = b.hi /\ a.lo > b.lo)

\* A JavaScript number used as a condition: zero is false.
Truthy(a) == a # Zero

\* NodeEd25519.HIGHEST_BIT = 0x80000000
HIGHEST_BIT == U(32768, 0)

\* Math.pow(2, 31) - 1
UINT31_MAX == U(32767, 65535)

(***************************************************************************)
(* Buffers                                                                 *)
(***************************************************************************)
Byte == 0..255

Fill(n, b) == [i \in 1..n |-> b]

RECURSIVE SumTo(_, _)
SumTo(s, n) == IF n = 0 THEN 0 ELSE s[n] + SumTo(s, n - 1)

Sum(s) == SumTo(s, Len(s))

\* Buffer.slice(start, end) with 0-based offsets, end exclusive.
Slice(buf, start, end) == SubSeq(buf, start + 1, end)

\* source.copy(target, targetStart): copies as many bytes as fit.
Copy(source, target, targetStart) ==
  [i \in 1..Len(target) |->
     IF i > targetStart /\ i - targetStart <= Len(source)
     THEN source[i - targetStart] ELSE target[i]]

\* Buffer.writeUInt32BE accepts 0 .. 2^32 - 1 and throws a range error otherwise.
UInt32InRange(v) == v.hi <= 65535

UInt32Bytes(v) == <<v.hi \div 256, v.hi % 256, v.lo \div 256, v.lo % 256>>

writeUInt32BE(buf, v, offset) == Copy(UInt32Bytes(v), buf, offset)

writeUInt8(buf, b, offset) == Copy(<<b>>, buf, offset)

readUInt32BE(buf, offset) ==
  U(buf[offset + 1] * 256 + buf[offset + 2], buf[offset + 3] * 256 + buf[offset + 4])

readUInt8(buf, offset) == buf[offset + 1]

(***************************************************************************)
(* Collaborators (hashes and curve arithmetic live outside the file; they  *)
(* are deterministic functions of their arguments with the output sizes    *)
(* the code relies on).                                                    *)
(***************************************************************************)
\* createHmac('sha512', key).update(data).digest(): 64 bytes.
HmacSha512(key, data) ==
  LET h == (Sum(key) + 7 * Sum(data)) % 3
  IN  Fill(32, 17 + h) \o Fill(32, 49 + h)

\* CatapultECC.extractPublicKey(privateKey, hash): the 32-byte ed25519 public key.
extractPublicKey(d) == [i \in 1..32 |-> (d[i] + 64) % 256]

\* The point sum nacl_catapult.add computes from a point and a scalar: a group
\* operation, here addition modulo 4 in the low bits of each byte.
PointSum(p, q) ==
  [i \in 1..Len(p) |->
     IF i <= Len(q) THEN (p[i] \div 4) * 4 + ((p[i] + q[i]) % 4) ELSE p[i]]

\* Cryptography.hash160(buffer): 20 bytes.
hash160(buf) == Fill(20, 1 + (Sum(buf) % 255))

\* The 4-byte checksum bs58check appends to a payload.
Checksum(payload) == UInt32Bytes(U(Sum(payload) % 65536, Len(payload)))

\* bs58check.encode(payload): payload followed by its checksum, as text.
Bs58Encode(payload) == payload \o Checksum(payload)

\* bs58check.decode(text) throws unless the trailing checksum matches.
Bs58Valid(text) ==
  /\ Len(text) >= 4
  /\ Slice(text, Len(text) - 4, Len(text)) = Checksum(Slice(text, 0, Len(text) - 4))

Bs58Decode(text) == Slice(text, 0, Len(text) - 4)

(***************************************************************************)
(* Network: a pair of 32-bit version prefixes.  The class is declared in   *)
(* ../../index; the code reads Network.CATAPULT.privateKeyPrefix and       *)
(* Network.CATAPULT.publicKeyPrefix.  OTHERNET is a network whose prefixes *)
(* differ from CATAPULT's.                                                 *)
(***************************************************************************)
CATAPULT == [privateKeyPrefix |-> U(1160, 44516), publicKeyPrefix |-> U(1160, 45598)]

OTHERNET == [privateKeyPrefix |-> U(1077, 33684), publicKeyPrefix |-> U(1077, 34767)]

Networks == {CATAPULT, OTHERNET}

(***************************************************************************)
(* Nodes.  __D is the private key (<<>> stands for undefined; every key    *)
(* the code stores is a 32-byte slice).  __Q is a reference to the Buffer  *)
(* holding the public key (0 stands for undefined): a Buffer is an object, *)
(* so two nodes can hold the same one, and the heap maps a reference to    *)
(* the bytes it holds now.                                                 *)
(***************************************************************************)
NodeEd25519(D, Q, chainCode, network, DEPTH, INDEX, PARENT_FINGERPRINT) ==
  [D |-> D, Q |-> Q, chainCode |-> chainCode, network |-> network,
   depth |-> DEPTH, index |-> INDEX, parentFingerprint |-> PARENT_FINGERPRINT]

\* new NodeEd25519(D, Q, chainCode): the constructor's default arguments.
NodeDefault(D, Q, chainCode) == NodeEd25519(D, Q, chainCode, CATAPULT, 0, Zero, Zero)

NoNode == NodeDefault(<<>>, 0, <<>>)

isNeutered(node) == node.D = <<>>

\* The publicKey getter: computes and stores __Q on first access.
publicKey(node, hp) ==
  IF node.Q = 0
  THEN [node |-> [node EXCEPT !.Q = Len(hp) + 1],
        heap |-> Append(hp, extractPublicKey(node.D))]
  ELSE [node |-> node, heap |-> hp]

\* The bytes the publicKey getter returns, without its effect.
PublicKeyValue(node, hp) == IF node.Q = 0 THEN extractPublicKey(node.D) ELSE hp[node.Q]

identifier(node, hp) == hash160(PublicKeyValue(node, hp))

fingerprint(node, hp) == Slice(identifier(node, hp), 0, 4)

(***************************************************************************)
(* Outcome of an operation: err is "" when it returns, else the error it   *)
(* throws; self is the receiver after the call, node the node returned,    *)
(* heap the buffers after the call, calls the derivation functions run.    *)
(***************************************************************************)
Outcome(err, self, node, hp, calls) ==
  [err |-> err, self |-> self, node |-> node, heap |-> hp, calls |-> calls]

Call(fn, parent, index) == [fn |-> fn, neutered |-> isNeutered(parent), index |-> index]

CKDPriv(parent, index, hp) ==
  IF ~UInt32InRange(index)
  THEN Outcome("RangeError", parent, NoNode, hp, <<Call("CKDPriv", parent, index)>>)
  ELSE
    LET indexBuffer == writeUInt32BE(Fill(4, 0), index, 0)
        data == Fill(1, 0) \o parent.D \o indexBuffer
        I  == HmacSha512(parent.chainCode, data)
        IL == Slice(I, 0, 32)
        IR == Slice(I, 32, 64)
    IN  Outcome("", parent, NodeDefault(IL, 0, IR), hp, <<Call("CKDPriv", parent, index)>>)

\* Ki, a const bound to the Buffer parent.publicKey returns, is never null.
NullRef == 0 - 1

RECURSIVE CKDPub(_, _, _, _)
CKDPub(parent, index, hp, inPlace) ==
  IF ~UInt32InRange(index)
  THEN Outcome("RangeError", parent, NoNode, hp, <<Call("CKDPub", parent, index)>>)
  ELSE
    LET indexBuffer == writeUInt32BE(Fill(4, 0), index, 0)
        pk == publicKey(parent, hp)
        Ki == pk.node.Q
        data == pk.heap[Ki] \o indexBuffer
        I  == HmacSha512(parent.chainCode, data)
        IL == Slice(I, 0, 32)
        IR == Slice(I, 32, 64)
        \* nacl_catapult.add(Ki, IL): its result, if any, goes into Ki itself.
        hp2 == IF inPlace THEN [pk.heap EXCEPT ![Ki] = PointSum(@, IL)] ELSE pk.heap
    IN  IF Ki = NullRef
        THEN CKDPub(parent, NumAdd(index, One), hp, inPlace)
        ELSE Outcome("", pk.node, NodeDefault(<<>>, Ki, IR), hp2,
                     <<Call("CKDPub", parent, index)>>)

\* Mutant: derive without the check for a hardened index on a neutered node.
deriveUngated(self, index, hp, inPlace) ==
  IF ~isNeutered(self)
  THEN CKDPriv(self, index, hp)
  ELSE CKDPub(self, index, hp, inPlace)

derive(self, index, hp, inPlace) ==
  LET isHardened == NumGE(index, HIGHEST_BIT)
  IN  IF isHardened /\ isNeutered(self)
      THEN Outcome("MissingPrivateKey", self, NoNode, hp, <<>>)
      ELSE IF ~isNeutered(self)
           THEN CKDPriv(self, index, hp)
           ELSE CKDPub(self, index, hp, inPlace)

deriveHardened(self, index, hp, inPlace) ==
  IF NumGT(index, UINT31_MAX)
  THEN Outcome("IndexOverflow", self, NoNode, hp, <<>>)
  ELSE derive(self, NumAdd(index, HIGHEST_BIT), hp, inPlace)

\* Mutant: the copy keeps the private key.
neuteredKeepsKey(self, hp) ==
  LET pk == publicKey(self, hp)
  IN  Outcome("", pk.node,
              NodeEd25519(self.D, pk.node.Q, self.chainCode, self.network,
                          self.depth, self.index, self.parentFingerprint),
              pk.heap, <<>>)

neutered(self, hp) ==
  LET pk == publicKey(self, hp)
  IN  Outcome("", pk.node,
              NodeEd25519(<<>>, pk.node.Q, self.chainCode, self.network,
                          self.depth, self.index, self.parentFingerprint),
              pk.heap, <<>>)

(***************************************************************************)
(* Extended key codec                                                      *)
(***************************************************************************)
\* Buffer.from('Catapult seed', 'utf8')
CatapultSeed == <<67, 97, 116, 97, 112, 117, 108, 116, 32, 115, 101, 101, 100>>

\* Mutant: the lower bound is off by one, so a seed of 16 bytes is refused.
fromSeedOffByOne(seed, network, hp) ==
  IF Len(seed) <= 16 THEN Outcome("InvalidSeedLength", NoNode, NoNode, hp, <<>>)
  ELSE IF Len(seed) > 64 THEN Outcome("InvalidSeedLength", NoNode, NoNode, hp, <<>>)
  ELSE
    LET I  == HmacSha512(CatapultSeed, seed)
        IL == Slice(I, 0, 32)
        IR == Slice(I, 32, 64)
    IN  Outcome("", NoNode, NodeEd25519(IL, 0, IR, network, 0, Zero, Zero), hp, <<>>)

fromSeed(seed, network, hp) ==
  IF Len(seed) < 16 THEN Outcome("InvalidSeedLength", NoNode, NoNode, hp, <<>>)
  ELSE IF Len(seed) > 64 THEN Outcome("InvalidSeedLength", NoNode, NoNode, hp, <<>>)
  ELSE
    LET I  == HmacSha512(CatapultSeed, seed)
        IL == Slice(I, 0, 32)
        IR == Slice(I, 32, 64)
    IN  Outcome("", NoNode, NodeEd25519(IL, 0, IR, network, 0, Zero, Zero), hp, <<>>)

\* uninit is the byte Buffer.allocUnsafe(78) happens to hold where nothing is written.
toBase58(self, hp, uninit) ==
  LET version == IF ~isNeutered(self)
                 THEN CATAPULT.privateKeyPrefix
                 ELSE CATAPULT.publicKeyPrefix
      b0 == Fill(78, uninit)
      b1 == writeUInt32BE(b0, version, 0)
      b2 == writeUInt8(b1, self.depth, 4)
      b3 == writeUInt32BE(b2, self.parentFingerprint, 5)
      b4 == writeUInt32BE(b3, self.index, 9)
      b5 == Copy(self.chainCode, b4, 13)
      pk == publicKey(self, hp)
      b6 == IF ~isNeutered(self)
            THEN Copy(self.D, writeUInt8(b5, 0, 45), 46)
            ELSE Copy(pk.heap[pk.node.Q], b5, 45)
  IN  Bs58Encode(b6)

\* Mutant: the master node checks are left out.
MasterFieldIgnored(depth, field) == FALSE

\* if (depth === 0 && field !== 0), for the parent fingerprint and for the index.
MasterFieldSet(depth, field) == depth = 0 /\ field # Zero

fromBase58(inString, network, hp) ==
  IF ~Bs58Valid(inString) THEN Outcome("InvalidChecksum", NoNode, NoNode, hp, <<>>)
  ELSE
    LET buffer == Bs58Decode(inString) IN
    IF Len(buffer) # 78 THEN Outcome("InvalidLength", NoNode, NoNode, hp, <<>>)
    ELSE
      LET version == readUInt32BE(buffer, 0)
          depth == buffer[5]
          parentFingerprint == readUInt32BE(buffer, 5)
          index == readUInt32BE(buffer, 9)
          chainCode == Slice(buffer, 13, 45)
      IN
      IF version # CATAPULT.privateKeyPrefix /\ version # CATAPULT.publicKeyPrefix
      THEN Outcome("InvalidVersion", NoNode, NoNode, hp, <<>>)
      ELSE IF MasterFieldSet(depth, parentFingerprint)
      THEN Outcome("InvalidMasterNode", NoNode, NoNode, hp, <<>>)
      ELSE IF MasterFieldSet(depth, index)
      THEN Outcome("InvalidMasterNode", NoNode, NoNode, hp, <<>>)
      ELSE IF version = CATAPULT.privateKeyPrefix
      THEN IF readUInt8(buffer, 45) # 0
           THEN Outcome("InvalidPrivateKeyMarker", NoNode, NoNode, hp, <<>>)
           ELSE LET k == Slice(buffer, 46, 78)
                IN  Outcome("", NoNode,
                            NodeEd25519(k, 0, chainCode, network, depth, index,
                                        parentFingerprint), hp, <<>>)
      ELSE LET X == Slice(buffer, 45, 78)
           IN  Outcome("", NoNode,
                       NodeEd25519(<<>>, Len(hp) + 1, chainCode, network, depth, index,
                                   parentFingerprint), Append(hp, X), <<>>)

(***************************************************************************)
(* Paths are strings, modelled as sequences of one-character strings.      *)
(***************************************************************************)
DigitChars == <<"0", "1", "2", "3", "4", "5", "6", "7", "8", "9">>

IsDigit(c) == \E d \in 1..10 : DigitChars[d] = c

DigitValue(c) == (CHOOSE d \in 1..10 : DigitChars[d] = c) - 1

\* String.split(sep)
RECURSIVE Split(_, _)
Split(str, sep) ==
  IF \A i \in 1..Len(str) : str[i] # sep
  THEN <<str>>
  ELSE LET k == CHOOSE i \in 1..Len(str) :
                  str[i] = sep /\ \A j \in 1..(i - 1) : str[j] # sep
       IN  <<SubSeq(str, 1, k - 1)>> \o Split(SubSeq(str, k + 1, Len(str)), sep)

\* parseInt(str, 10) of a string of decimal digits.
RECURSIVE ParseDigits(_, _)
ParseDigits(str, acc) ==
  IF str = <<>> THEN acc
  ELSE LET low == acc.lo * 10 + DigitValue(Head(str))
       IN  ParseDigits(Tail(str), U(acc.hi * 10 + (low \div 65536), low % 65536))

parseInt(str) == ParseDigits(str, Zero)

\* One path level of the expression: \d+'?
MatchesLevel(str) ==
  LET digits == IF Len(str) > 0 /\ str[Len(str)] = "'"
                THEN SubSeq(str, 1, Len(str) - 1) ELSE str
  IN  Len(digits) > 0 /\ \A i \in 1..Len(digits) : IsDigit(digits[i])

\* path.match(/^(m\/)?(\d+'?\/)*\d+'?$/) !== null
isValidPath(path) ==
  LET rest == IF Len(path) >= 2 /\ path[1] = "m" /\ path[2] = "/"
              THEN SubSeq(path, 3, Len(path)) ELSE path
      levels == Split(rest, "/")
  IN  \A i \in 1..Len(levels) : MatchesLevel(levels[i])

\* Mutant: every level is derived as a normal one, its mark dropped.
RECURSIVE ReducePathUnmarked(_, _, _, _)
ReducePathUnmarked(acc, splitPath, i, inPlace) ==
  IF i > Len(splitPath) \/ acc.err # "" THEN acc
  ELSE
    LET indexStr == splitPath[i]
        digits == IF indexStr[Len(indexStr)] = "'"
                  THEN SubSeq(indexStr, 1, Len(indexStr) - 1) ELSE indexStr
        r == derive(acc.node, parseInt(digits), acc.heap, inPlace)
    IN  ReducePathUnmarked(Outcome(r.err, IF i = 1 THEN r.self ELSE acc.self, r.node,
                                   r.heap, acc.calls \o r.calls),
                           splitPath, i + 1, inPlace)

\* The callback of splitPath.reduce in derivePath, applied from level i on;
\* acc is the outcome so far (acc.node is prevHd); an exception ends the fold.
RECURSIVE ReducePath(_, _, _, _)
ReducePath(acc, splitPath, i, inPlace) ==
  IF i > Len(splitPath) \/ acc.err # "" THEN acc
  ELSE
    LET indexStr == splitPath[i]
        r == IF indexStr[Len(indexStr)] = "'"
             THEN deriveHardened(acc.node, parseInt(SubSeq(indexStr, 1, Len(indexStr) - 1)),
                                 acc.heap, inPlace)
             ELSE derive(acc.node, parseInt(indexStr), acc.heap, inPlace)
    IN  ReducePath(Outcome(r.err, IF i = 1 THEN r.self ELSE acc.self, r.node, r.heap,
                           acc.calls \o r.calls),
                   splitPath, i + 1, inPlace)

derivePath(self, path, hp, inPlace) ==
  IF ~isValidPath(path) THEN Outcome("InvalidPath", self, NoNode, hp, <<>>)
  ELSE
    LET splitPath == Split(path, "/") IN
    IF splitPath[1] = <<"m">> /\ Truthy(self.parentFingerprint)
    THEN Outcome("ExpectedMasterNode", self, NoNode, hp, <<>>)
    ELSE LET levels == IF splitPath[1] = <<"m">> THEN Tail(splitPath) ELSE splitPath
         IN  ReducePath(Outcome("", self, self, hp, <<>>), levels, 1, inPlace)

(***************************************************************************)
(* Inputs                                                                  *)
(***************************************************************************)
\* The most nodes a caller holds at a time.
MaxNodes == 2

Seeds == {Fill(15, 0), Fill(16, 0), Fill(16, 1), Fill(32, 0), Fill(64, 0), Fill(65, 0)}

DeriveIndexes == {Zero, One, HIGHEST_BIT, U(65535, 65535)}

HardenedIndexes == {Zero, UINT31_MAX, HIGHEST_BIT}

\* Bytes a fresh Buffer.allocUnsafe can hold.
UninitBytes == {0, 170}

\* Decimal digits of a number, as the characters of a path level.
RECURSIVE ToDigits(_)
ToDigits(v) ==
  LET r == (v.hi % 10) * 65536 + v.lo
      q == U(v.hi \div 10 + ((r \div 10) \div 65536), (r \div 10) % 65536)
  IN  IF v.hi = 0 /\ v.lo < 10 THEN <<DigitChars[v.lo + 1]>>
      ELSE ToDigits(q) \o <<DigitChars[(r % 10) + 1]>>

Level(n, hardened) == [n |-> n, hardened |-> hardened]

Path(m, levels) == [m |-> m, levels |-> levels]

RECURSIVE RenderLevels(_)
RenderLevels(levels) ==
  IF levels = <<>> THEN <<>>
  ELSE ToDigits(Head(levels).n)
       \o (IF Head(levels).hardened THEN <<"'">> ELSE <<>>)
       \o (IF Len(levels) > 1 THEN <<"/">> ELSE <<>>)
       \o RenderLevels(Tail(levels))

\* The path string that writes the levels, after "m/" when m is set.
Render(p) == (IF p.m THEN <<"m", "/">> ELSE <<>>) \o RenderLevels(p.levels)

GrammarPaths ==
  { Path(TRUE,  <<Level(Zero, TRUE), Level(One, FALSE)>>),
    Path(FALSE, <<Level(Zero, TRUE), Level(One, FALSE)>>),
    Path(TRUE,  <<Level(Zero, FALSE)>>),
    Path(FALSE, <<Level(One, FALSE)>>),
    Path(FALSE, <<Level(Zero, FALSE), Level(One, TRUE)>>),
    Path(FALSE, <<Level(Zero, FALSE), Level(One, FALSE)>>),
    Path(FALSE, <<Level(HIGHEST_BIT, FALSE)>>),
    Path(TRUE,  <<Level(HIGHEST_BIT, TRUE)>>),
    Path(FALSE, <<Level(U(65536, 0), FALSE)>>),
    Path(TRUE,  <<Level(One, TRUE), Level(U(65536, 0), TRUE)>>) }

PathStrings ==
  { Render(p) : p \in GrammarPaths }
  \cup { <<"m">>, <<"m", "/">>, <<"0", "/", "/", "1">>, <<"x">>, <<>> }

\* A 78-byte extended key record with the given fields.
Payload(version, depth, parentFingerprint, index, chainCode, key) ==
  UInt32Bytes(version) \o <<depth>> \o UInt32Bytes(parentFingerprint)
  \o UInt32Bytes(index) \o chainCode \o key

CraftedTexts ==
  LET cc == Fill(32, 9)
      priv == <<0>> \o Fill(32, 7)
      pub == <<2>> \o Fill(32, 8)
  IN  { Bs58Encode(Payload(CATAPULT.privateKeyPrefix, 0, Zero, Zero, cc, priv)),
        Bs58Encode(Payload(CATAPULT.publicKeyPrefix, 1, U(0, 5), One, cc, pub)),
        Bs58Encode(Payload(CATAPULT.privateKeyPrefix, 0, U(0, 5), Zero, cc, priv)),
        Bs58Encode(Payload(CATAPULT.privateKeyPrefix, 0, Zero, One, cc, priv)),
        Bs58Encode(Payload(CATAPULT.privateKeyPrefix, 1, Zero, Zero, cc, priv)),
        Bs58Encode(Payload(CATAPULT.privateKeyPrefix, 2, U(0, 7), HIGHEST_BIT, cc, priv)),
        Bs58Encode(Payload(OTHERNET.privateKeyPrefix, 0, Zero, Zero, cc, priv)),
        Bs58Encode(Payload(OTHERNET.publicKeyPrefix, 0, Zero, Zero, cc, pub)),
        Bs58Encode(Payload(CATAPULT.privateKeyPrefix, 0, Zero, Zero, cc, pub)),
        Bs58Encode(Payload(CATAPULT.privateKeyPrefix, 0, Zero, Zero, cc, Fill(32, 7))),
        Payload(CATAPULT.privateKeyPrefix, 0, Zero, Zero, cc, priv) \o Fill(4, 0) }

(***************************************************************************)
(* State: the nodes the caller holds, the Buffers their public keys live   *)
(* in, whether this build's nacl_catapult.add writes its sum into its      *)
(* first argument, where each node comes from (the depth of the node that  *)
(* fromSeed or fromBase58 returned and the derivation steps made from it), *)
(* and the call being observed with its outcome.  The caller keeps a       *)
(* returned node while it holds fewer than MaxNodes; result is the         *)
(* returned node either way.                                               *)
(***************************************************************************)
VARIABLES nodes, heap, naclAddInPlace, origin, last

vars == <<nodes, heap, naclAddInPlace, origin, last>>

Origin(depth, steps) == [depth |-> depth, steps |-> steps]

Stepped(o, n) == Origin(o.depth, o.steps + n)

NoCall ==
  [op |-> "none", self |-> 0, err |-> "", result |-> NoNode, origin |-> Origin(0, 0),
   index |-> Zero,
   path |-> <<>>, text |-> <<>>, of |-> 0, network |-> CATAPULT, calls |-> <<>>]

Init ==
  /\ nodes = <<>>
  /\ heap = <<>>
  /\ naclAddInPlace \in BOOLEAN
  /\ origin = <<>>
  /\ last = NoCall

Idle == last.op = "none"

\* The effect of a call with outcome r on receiver n (0 for a static method).
Returns(n, r, lvl) ==
  LET kept == IF n = 0 THEN nodes ELSE [nodes EXCEPT ![n] = r.self]
      room == r.err = "" /\ Len(nodes) < MaxNodes
  IN  /\ nodes' = IF room THEN Append(kept, r.node) ELSE kept
      /\ origin' = IF room THEN Append(origin, lvl) ELSE origin
      /\ heap' = r.heap
      /\ UNCHANGED naclAddInPlace

Observed(op, n, r, lvl) ==
  [NoCall EXCEPT !.op = op, !.self = n, !.err = r.err, !.result = r.node,
                 !.origin = IF r.err = "" THEN lvl ELSE Origin(0, 0), !.calls = r.calls]

FromSeed(seed, network) ==
  LET r == fromSeed(seed, network, heap) IN
  /\ Idle
  /\ Returns(0, r, Origin(0, 0))
  /\ last' = [Observed("fromSeed", 0, r, Origin(0, 0)) EXCEPT !.text = seed, !.network = network]

FromBase58(text, of, network) ==
  LET r == fromBase58(text, network, heap) IN
  /\ Returns(0, r, Origin(r.node.depth, 0))
  /\ last' = [Observed("fromBase58", 0, r, Origin(r.node.depth, 0))
                EXCEPT !.text = text, !.of = of, !.network = network]

Derive(n, index) ==
  LET r == derive(nodes[n], index, heap, naclAddInPlace) IN
  /\ Idle
  /\ Returns(n, r, Stepped(origin[n], 1))
  /\ last' = [Observed("derive", n, r, Stepped(origin[n], 1)) EXCEPT !.index = index]

DeriveHardened(n, index) ==
  LET r == deriveHardened(nodes[n], index, heap, naclAddInPlace) IN
  /\ Idle
  /\ Returns(n, r, Stepped(origin[n], 1))
  /\ last' = [Observed("deriveHardened", n, r, Stepped(origin[n], 1)) EXCEPT !.index = index]

DerivePath(n, path) ==
  LET r == derivePath(nodes[n], path, heap, naclAddInPlace) IN
  /\ Idle
  /\ Returns(n, r, Stepped(origin[n], Len(r.calls)))
  /\ last' = [Observed("derivePath", n, r, Stepped(origin[n], Len(r.calls))) EXCEPT !.path = path]

Neutered(n) ==
  LET r == neutered(nodes[n], heap) IN
  /\ Idle
  /\ Returns(n, r, origin[n])
  /\ last' = Observed("neutered", n, r, origin[n])

\* Reading node.publicKey.
PublicKey(n) ==
  LET pk == publicKey(nodes[n], heap) IN
  /\ Idle
  /\ nodes' = [nodes EXCEPT ![n] = pk.node]
  /\ heap' = pk.heap
  /\ last' = [NoCall EXCEPT !.op = "publicKey", !.self = n]
  /\ UNCHANGED <<naclAddInPlace, origin>>

ToBase58(n, uninit) ==
  /\ Idle
  /\ last' = [NoCall EXCEPT !.op = "toBase58", !.self = n,
                            !.text = toBase58(nodes[n], heap, uninit)]
  /\ UNCHANGED <<nodes, heap, naclAddInPlace, origin>>

\* sign reads privateKey, which throws on a neutered node, then publicKey.
Sign(n) ==
  /\ Idle
  /\ IF isNeutered(nodes[n])
     THEN /\ last' = [NoCall EXCEPT !.op = "sign", !.self = n, !.err = "MissingPrivateKey"]
          /\ UNCHANGED <<nodes, heap, naclAddInPlace, origin>>
     ELSE LET pk == publicKey(nodes[n], heap) IN
          /\ nodes' = [nodes EXCEPT ![n] = pk.node]
          /\ heap' = pk.heap
          /\ last' = [NoCall EXCEPT !.op = "sign", !.self = n]
          /\ UNCHANGED <<naclAddInPlace, origin>>

Verify(n) ==
  LET pk == publicKey(nodes[n], heap) IN
  /\ Idle
  /\ nodes' = [nodes EXCEPT ![n] = pk.node]
  /\ heap' = pk.heap
  /\ last' = [NoCall EXCEPT !.op = "verify", !.self = n]
  /\ UNCHANGED <<naclAddInPlace, origin>>

\* The Buffers some held node refers to; one allocated for a node that was not
\* kept is the last one.
Live(hp) ==
  IF Len(hp) > 0 /\ \A k \in 1..Len(nodes) : nodes[k].Q # Len(hp)
  THEN SubSeq(hp, 1, Len(hp) - 1) ELSE hp

\* The caller is done with the outcome of the call.
Return ==
  /\ ~Idle
  /\ last' = NoCall
  /\ heap' = Live(heap)
  /\ UNCHANGED <<nodes, naclAddInPlace, origin>>

Next ==
  \/ \E seed \in Seeds, network \in Networks : FromSeed(seed, network)
  \/ \E text \in CraftedTexts, network \in Networks : Idle /\ FromBase58(text, 0, network)
  \/ \E network \in Networks :
       last.op = "toBase58" /\ FromBase58(last.text, last.self, network)
  \/ \E n \in 1..Len(nodes), index \in DeriveIndexes : Derive(n, index)
  \/ \E n \in 1..Len(nodes), index \in HardenedIndexes : DeriveHardened(n, index)
  \/ \E n \in 1..Len(nodes), path \in PathStrings : DerivePath(n, path)
  \/ \E n \in 1..Len(nodes) : Neutered(n)
  \/ \E n \in 1..Len(nodes) : PublicKey(n)
  \/ \E n \in 1..Len(nodes), uninit \in UninitBytes : ToBase58(n, uninit)
  \/ \E n \in 1..Len(nodes) : Sign(n)
  \/ \E n \in 1..Len(nodes) : Verify(n)
  \/ Return

Spec == Init /\ [][Next]_vars

(***************************************************************************)
(* Claims                                                                  *)
(***************************************************************************)
Held == 1..Len(nodes)

Derivations == {"derive", "deriveHardened", "derivePath"}

\* C1: decoding the text toBase58 gave for a node yields a node with the same
\* depth, child index, parent fingerprint, chain code and key material (the private
\* key of a private node, the public key of a neutered one), of the same length.
RoundTrip ==
  (last.op = "fromBase58" /\ last.of # 0) =>
    LET node == nodes[last.of] IN
    /\ last.err = ""
    /\ last.result.depth = node.depth
    /\ last.result.index = node.index
    /\ last.result.parentFingerprint = node.parentFingerprint
    /\ last.result.chainCode = node.chainCode
    /\ isNeutered(last.result) = isNeutered(node)
    /\ last.result.D = node.D
    /\ isNeutered(node) => PublicKeyValue(last.result, heap) = PublicKeyValue(node, heap)

\* C2: a child that derive returns has the depth of its parent plus one, the index
\* asked for and the fingerprint of its parent as parent fingerprint; a node reached
\* by n derivation steps from a master node has depth n.
ChildMetadata ==
  (last.op \in Derivations /\ last.err = "") =>
    /\ last.result.depth = last.origin.depth + last.origin.steps
    /\ last.op = "derive" =>
         /\ last.result.depth = nodes[last.self].depth + 1
         /\ last.result.index = last.index
         /\ last.result.parentFingerprint = readUInt32BE(fingerprint(nodes[last.self], heap), 0)

\* The nodes the public operations have handed out.
Handed == {nodes[k] : k \in Held} \cup (IF last.err = "" /\ last.result # NoNode
                                        THEN {last.result} ELSE {})

\* C3 as stated: a node has depth 0 if and only if its parent fingerprint and its
\* index are both 0.
MasterNodeIdentity ==
  \A node \in Handed :
    node.depth = 0 <=> (node.parentFingerprint = Zero /\ node.index = Zero)

\* The fields of the payload a text carries.
PayloadOf(text) == Bs58Decode(text)

\* C3 as amended: a node of depth 0 has parent fingerprint 0 and index 0, and
\* fromBase58 rejects a payload of depth 0 whose parent fingerprint or index is not 0.
MasterNodeFields ==
  /\ \A node \in Handed :
       node.depth = 0 => (node.parentFingerprint = Zero /\ node.index = Zero)
  /\ (/\ last.op = "fromBase58"
      /\ Bs58Valid(last.text)
      /\ Len(PayloadOf(last.text)) = 78
      /\ readUInt8(PayloadOf(last.text), 4) = 0
      /\ \/ readUInt32BE(PayloadOf(last.text), 5) # Zero
         \/ readUInt32BE(PayloadOf(last.text), 9) # Zero)
     => last.err # ""

\* A payload of depth 0 with a nonzero index was rejected as no master node.
MasterNodeRejected ==
  /\ last.op = "fromBase58"
  /\ last.err = "InvalidMasterNode"
  /\ readUInt8(PayloadOf(last.text), 4) = 0
  /\ readUInt32BE(PayloadOf(last.text), 5) = Zero
  /\ readUInt32BE(PayloadOf(last.text), 9) # Zero

\* The levels of the path string, when it is one of the grammar-valid inputs.
PathOf(str) == CHOOSE p \in GrammarPaths : Render(p) = str

IsGrammarPath(str) == \E p \in GrammarPaths : Render(p) = str

\* A level that asks for a hardened child: marked, or unmarked with the high bit set.
AsksHardened(lv) == lv.hardened \/ NumGE(lv.n, HIGHEST_BIT)

RECURSIVE FoldLevels(_, _, _)
FoldLevels(acc, levels, inPlace) ==
  IF levels = <<>> \/ acc.err # "" THEN acc
  ELSE LET lv == Head(levels)
           r == IF lv.hardened
                THEN deriveHardened(acc.node, lv.n, acc.heap, inPlace)
                ELSE derive(acc.node, lv.n, acc.heap, inPlace)
       IN  FoldLevels(r, Tail(levels), inPlace)

FoldFrom(node, levels) == FoldLevels(Outcome("", node, node, heap, <<>>), levels, naclAddInPlace)

\* The call observed after the step is derivePath with a grammar-valid path.
PathCall == last'.op = "derivePath" /\ IsGrammarPath(last'.path)

SameAsFold ==
  LET ref == FoldFrom(nodes[last'.self], PathOf(last'.path).levels)
  IN  /\ last'.err = ref.err
      /\ last'.result = ref.node
      /\ heap' = ref.heap

\* C5 as stated: derivePath of a grammar-valid path on any node has the outcome of
\* folding its levels over the node (a leading m stripped): the same node, or the
\* error of the first failing step.
PathEquivalence == [][PathCall => SameAsFold]_vars

\* C5 as amended: the same, except that a path with a leading m on a node whose
\* parent fingerprint is not 0 fails with ExpectedMasterNode and derives nothing.
PathEquivalenceOnMaster ==
  [][PathCall =>
       IF PathOf(last'.path).m /\ Truthy(nodes[last'.self].parentFingerprint)
       THEN last'.err = "ExpectedMasterNode" /\ last'.calls = <<>> /\ heap' = heap
       ELSE SameAsFold]_vars

\* derivePath("m/0'/1") returned a node.
PathDerived ==
  /\ last.op = "derivePath"
  /\ last.path = <<"m", "/", "0", "'", "/", "1">>
  /\ last.err = ""
  /\ Len(last.calls) = 2

\* C6: derivePath with a grammar-valid path that begins with m/ fails with
\* ExpectedMasterNode on a node obtained from a master node by one derivation step
\* or more.
ExpectedMasterOnChild ==
  (/\ last.op = "derivePath"
   /\ IsGrammarPath(last.path)
   /\ PathOf(last.path).m
   /\ origin[last.self].depth = 0
   /\ origin[last.self].steps >= 1)
  => last.err = "ExpectedMasterNode"

NeuteredCopies ==
  [][last'.op = "neutered" =>
       LET self == nodes[last'.self]
           after == nodes'[last'.self]
           copy == last'.result
       IN  /\ last'.err = ""
           /\ isNeutered(copy)
           /\ PublicKeyValue(copy, heap') = PublicKeyValue(self, heap)
           /\ copy.chainCode = self.chainCode
           /\ copy.network = self.network
           /\ copy.depth = self.depth
           /\ copy.index = self.index
           /\ copy.parentFingerprint = self.parentFingerprint
           /\ after.D = self.D
           /\ [after EXCEPT !.Q = 0] = [self EXCEPT !.Q = 0]
           /\ PublicKeyValue(after, heap') = PublicKeyValue(self, heap)
           /\ Len(nodes) < MaxNodes =>
                (Len(nodes') = Len(nodes) + 1 /\ nodes'[Len(nodes')] = copy)]_vars

\* neutered() was called on a node that holds a private key, on a network of its own.
NeuteredPrivate ==
  /\ last.op = "neutered"
  /\ ~isNeutered(nodes[last.self])
  /\ nodes[last.self].network = OTHERNET
  /\ isNeutered(last.result)

\* C9: fromBase58(text, network) fails with InvalidVersion exactly when the version
\* field of the 78-byte payload is neither prefix of the network it is given.
VersionOfConfiguredNetwork ==
  (last.op = "fromBase58" /\ Bs58Valid(last.text) /\ Len(PayloadOf(last.text)) = 78) =>
    LET version == readUInt32BE(PayloadOf(last.text), 0)
    IN  last.err = "InvalidVersion"
          <=> (/\ version # last.network.privateKeyPrefix
               /\ version # last.network.publicKeyPrefix)

\* C10: derive, deriveHardened and derivePath return a node or fail with
\* InvalidPath, ExpectedMasterNode, MissingPrivateKey or IndexOverflow.
TypedDerivationErrors ==
  last.op \in Derivations =>
    last.err \in {"", "InvalidPath", "ExpectedMasterNode", "MissingPrivateKey", "IndexOverflow"}

\* C11: fromSeed refuses a seed shorter than 16 bytes or longer than 64 with
\* InvalidSeedLength, and returns for every other seed a master node that holds a
\* private key: depth 0, index 0, parent fingerprint 0.
SeedBoundary ==
  last.op = "fromSeed" =>
    IF Len(last.text) < 16 \/ Len(last.text) > 64
    THEN last.err = "InvalidSeedLength" /\ last.result = NoNode
    ELSE /\ last.err = ""
         /\ ~isNeutered(last.result)
         /\ last.result.depth = 0
         /\ last.result.index = Zero
         /\ last.result.parentFingerprint = Zero

\* fromSeed returned a master node for a seed of 16 bytes, the shortest it accepts.
SeedAccepted ==
  /\ last.op = "fromSeed"
  /\ Len(last.text) = 16
  /\ last.err = ""
  /\ ~isNeutered(last.result)

\* The neutral element of the group PointSum adds in: a sum that lands on it is
\* the candidate a public derivation has to skip.
IsIdentity(point) == \A i \in 1..32 : point[i] % 4 = 0

CandidateOf(key, chainCode, index) ==
  PointSum(key, Slice(HmacSha512(chainCode, key \o UInt32Bytes(index)), 0, 32))

\* The first index from `index` on whose candidate is not the identity.
RECURSIVE FirstIndex(_, _, _)
FirstIndex(key, chainCode, index) ==
  IF IsIdentity(CandidateOf(key, chainCode, index))
  THEN FirstIndex(key, chainCode, NumAdd(index, One))
  ELSE index

\* A public derivation: derive on a node without a private key, normal index.
PublicDerivation(call, parent) ==
  /\ call.op = "derive"
  /\ call.err = ""
  /\ isNeutered(parent)
  /\ ~NumGE(call.index, HIGHEST_BIT)

\* C12: CKDPub on a neutered parent and a normal index i returns a neutered child
\* whose public key is the sum of the parent's public key and IL for the first
\* index j >= i whose sum is not the identity, with the chain code IR of that j;
\* the child's public key is never the identity nor the parent's key unchanged.
CKDPubRetries ==
  [][PublicDerivation(last', nodes[last'.self]) =>
       LET parent == nodes[last'.self]
           key == PublicKeyValue(parent, heap)
           j == FirstIndex(key, parent.chainCode, last'.index)
           I == HmacSha512(parent.chainCode, key \o UInt32Bytes(j))
           child == last'.result
           childKey == PublicKeyValue(child, heap')
       IN  /\ isNeutered(child)
           /\ childKey = PointSum(key, Slice(I, 0, 32))
           /\ child.chainCode = Slice(I, 32, 64)
           /\ ~IsIdentity(childKey)
           /\ childKey # key]_vars

====
